---- MODULE Spec2Model ----
(***************************************************************************)
(* A model of the URL shortener's HTTP surface (src/src/api/mod.rs):       *)
(* the route table built by api_config/listen, the three handlers          *)
(* create_url, delete_url and redirect_url, and the storage they call.     *)
(*                                                                         *)
(* A request occupies a worker slot.  It is routed (NormalizePath, scope   *)
(* "/api", the three resources, the default service), its extractor runs,  *)
(* and a handler then takes two steps, one per await in the source: the    *)
(* acquisition of a database client and the single storage call.  Slots    *)
(* interleave freely, which is the concurrency the server has.  The step   *)
(* that ends a request puts its response and its log lines in out.         *)
(*                                                                         *)
(* crate::database and crate::state are not part of the sources at hand;   *)
(* create_link, delete_link and get_link follow section 4.1 of the         *)
(* specification.                                                          *)
(***************************************************************************)
EXTENDS Naturals, Sequences, FiniteSets

VARIABLES
    store,    \* the links table: id -> None (no row) or Some(url)
    hist,     \* history of each id: what the last successful call did to it
    pc,       \* per slot: "idle", "received", "acquire" or "call"
    req,      \* per slot: the request being served
    handler,  \* per slot: the handler the request was dispatched to
    out       \* what the last step sent and printed: an Event, or NoEvent

vars == <<store, hist, pc, req, handler, out>>

----------------------------------------------------------------------------
(* Bounds of the model.                                                    *)

\* Number of requests the server processes at the same time.
MaxInFlight == 2

Slots == 1..MaxInFlight

\* Identifiers and urls that request bodies carry.  "delete" is the id that
\* coincides with the literal segment of the route /urls/delete; "" is the
\* empty url, which deserializes as any other string does.
IDS == {"a", "delete"}
URLS == {"", "u", "v"}

----------------------------------------------------------------------------
(* Values.                                                                 *)

\* Option<T> as a sequence of length 0 or 1.
None == <<>>
Some(x) == <<x>>

\* A JSON object (a request body or a response body) is a set of
\* <<field, value>> pairs; the empty set is the absent/empty body.
NoBody == {}
HasField(b, f) == \E p \in b : p[1] = f
Field(b, f) == (CHOOSE p \in b : p[1] = f)[2]

\* struct Link { id, url } and struct LinkId { id } as JSON.
LinkJson(id, url) == {<<"id", id>>, <<"url", url>>}
LinkIdJson(id) == {<<"id", id>>}

Request(m, p, b) == [method |-> m, path |-> p, body |-> b]
NoRequest == Request("", <<>>, NoBody)

Response(s, b, l) == [status |-> s, body |-> b, location |-> l]
NoResponse == Response(0, NoBody, None)

\* String::is_empty
is_empty(s) == Len(s) = 0

\* format!("{}", s) for a String s: the Display of a string appended to the
\* empty output.
format(s) == "" \o s

----------------------------------------------------------------------------
(* Routing: listen() and api_config().                                     *)

\* A request path is the sequence of its segments, split at "/": "/" is
\* <<>>, "/api/urls/" is <<"api", "urls", "">> and "/api//urls" is
\* <<"api", "", "urls">>.
NonEmptySegment(s) == s # ""

\* NormalizePath::trim(): merges repeated slashes and trims the trailing one.
NormalizePath(p) == SelectSeq(p, NonEmptySegment)

\* The resources of api_config, in registration order.  "{id}" is a dynamic
\* segment.  Each resource has one route, guarded by one method.
api_config ==
    << [pattern |-> <<"urls">>,           method |-> "POST",   to |-> "create_url"],
       [pattern |-> <<"urls", "delete">>, method |-> "DELETE", to |-> "delete_url"],
       [pattern |-> <<"urls", "{id}">>,   method |-> "GET",    to |-> "redirect_url"] >>

\* A resource definition matches a path when every segment matches; a
\* dynamic segment matches any one (non-empty) segment.
ResourceMatches(pattern, p) ==
    /\ Len(pattern) = Len(p)
    /\ \A i \in 1..Len(p) : pattern[i] = "{id}" \/ pattern[i] = p[i]

\* The router takes the first registered resource whose definition matches
\* the path; a route's method guard is consulted only after that.
\* 0: no resource matches.
MatchedResource(p) ==
    IF \E i \in 1..Len(api_config) : ResourceMatches(api_config[i].pattern, p)
    THEN CHOOSE i \in 1..Len(api_config) :
            /\ ResourceMatches(api_config[i].pattern, p)
            /\ \A j \in 1..(i - 1) : ~ResourceMatches(api_config[j].pattern, p)
    ELSE 0

\* not_found_handler, the application's default service.
not_found_handler == Response(404, {<<"error", "Not found">>}, None)

\* What a resource answers when none of its routes accepts the method: no
\* default service is set on the resources, so the framework's own.
resource_default == Response(405, NoBody, None)

\* What the Json/Path extractor answers when the payload does not
\* deserialize into the handler's argument type.
extractor_error == Response(400, {<<"text", "deserialize error">>}, None)

\* Mutant of route: a method no route of the matched resource accepts falls
\* through to the application's default service.
route_falls_through(r) ==
    LET p == NormalizePath(r.path) IN
    IF Len(p) >= 1 /\ p[1] = "api"
    THEN LET i == MatchedResource(Tail(p)) IN
         IF i # 0 /\ api_config[i].method = r.method
         THEN api_config[i].to
         ELSE "not_found_handler"
    ELSE "not_found_handler"

\* The service a request is dispatched to: a handler's name,
\* "not_found_handler" or "resource_default".
route(r) ==
    LET p == NormalizePath(r.path) IN
    IF Len(p) >= 1 /\ p[1] = "api"                  \* web::scope("/api")
    THEN LET i == MatchedResource(Tail(p)) IN
         IF i = 0 THEN "not_found_handler"           \* scope falls to default_service
         ELSE IF api_config[i].method = r.method
              THEN api_config[i].to
              ELSE "resource_default"
    ELSE "not_found_handler"

\* web::Json<Link>, web::Json<LinkId>, web::Path<LinkId>: whether the
\* handler's argument can be extracted from the request.
Extracts(h, r) ==
    CASE h = "create_url"   -> HasField(r.body, "id") /\ HasField(r.body, "url")
      [] h = "delete_url"   -> HasField(r.body, "id")
      [] h = "redirect_url" -> TRUE

\* body.id / params.id and body.url of the request a handler serves.
IdOf(h, r) ==
    IF h = "redirect_url" THEN NormalizePath(r.path)[3] ELSE Field(r.body, "id")
UrlOf(r) == Field(r.body, "url")

----------------------------------------------------------------------------
(* Storage: crate::database.                                               *)

\* create_link persists the mapping id -> url.
create_link(st, id, url) == [st EXCEPT ![id] = Some(url)]

\* delete_link removes the mapping if present.
delete_link(st, id) == [st EXCEPT ![id] = None]

\* get_link returns the url stored for id, or the empty string.
get_link(st, id) ==
    IF id \in DOMAIN st /\ st[id] # None THEN st[id][1] ELSE ""

----------------------------------------------------------------------------
(* The handlers' responses and log lines.                                  *)

JsonError(msg) == Response(500, {<<"error", msg>>}, None)
LogLine(msg, detail) == [msg |-> msg, detail |-> detail]

\* The error values the collaborators return.
PoolError == "PoolError"
DbError == "DbError"

create_url_connect_err == JsonError("Error connecting to database")
create_url_connect_log(err) == <<LogLine("Error connecting to database", err)>>
\* Mutant of create_url_ok: the two fields of the echo are exchanged.
create_url_ok_swapped(body) ==
    Response(200, LinkJson(format(Field(body, "url")), format(Field(body, "id"))), None)

create_url_ok(body) ==
    Response(200, LinkJson(format(Field(body, "id")), format(Field(body, "url"))), None)
\* Mutant of create_url_err: the error body is sent with the Ok status.
create_url_err_as_ok == Response(200, {<<"error", "Error shortening URL">>}, None)

create_url_err == JsonError("Error shortening URL")
create_url_err_log(err) == <<>>                     \* Err(_): nothing is printed

delete_url_connect_err == JsonError("Error connecting to database")
delete_url_connect_log(err) == <<LogLine("Error connecting to database", err)>>
\* Mutant of delete_url_ok: success is answered 204 without a body.
delete_url_ok_no_content == Response(204, NoBody, None)

delete_url_ok == Response(200, {<<"status", "success">>, <<"message", "Link deleted">>}, None)
delete_url_err == JsonError("Error deleting Link")
delete_url_err_log(err) == <<LogLine("Error deleting Link", err)>>

redirect_url_connect_err == JsonError("Error connecting to database")
redirect_url_connect_log(err) == <<LogLine("Error connecting to database", err)>>
\* Mutant of redirect_url_ok: the Location header is not appended.
redirect_url_ok_no_location(url) ==
    IF ~is_empty(url)
    THEN Response(302, NoBody, None)
    ELSE Response(200, NoBody, None)

\* Mutant of redirect_url_ok: an empty url is answered 404.
redirect_url_ok_404(url) ==
    IF ~is_empty(url)
    THEN Response(302, NoBody, Some(url))
    ELSE Response(404, NoBody, None)

\* Mutant of redirect_url_ok: the is_empty guard is missing.
redirect_url_ok_unguarded(url) == Response(302, NoBody, Some(url))

redirect_url_ok(url) ==
    IF ~is_empty(url)
    THEN Response(302, NoBody, Some(url))           \* Found + LOCATION
    ELSE Response(200, NoBody, None)                \* HttpResponse::Ok().into()
\* Mutant of redirect_url_err: the connection message is reused.
redirect_url_err_generic == JsonError("Error connecting to database")

redirect_url_err == JsonError("Error redirecting to full URL")
redirect_url_err_log(err) == <<LogLine("Error redirecting to full URL", err)>>

----------------------------------------------------------------------------
(* Requests.                                                               *)

\* Longest raw request path, in segments, that the routing check enumerates.
MaxSegments == 4

Segments == {"", "api", "urls", "delete", "a"}
Methods == {"GET", "POST", "DELETE", "PUT"}

RECURSIVE PathsOfLen(_)
PathsOfLen(n) ==
    IF n = 0 THEN {<<>>}
    ELSE {Append(p, s) : p \in PathsOfLen(n - 1), s \in Segments}

Paths == UNION {PathsOfLen(n) : n \in 0..MaxSegments}

\* Every request the routing check dispatches.
AllRequests ==
    {Request(m, p, b) : m \in Methods, p \in Paths,
                        b \in {NoBody, LinkIdJson("a"), LinkJson("a", "u")}}

\* The requests the running server is sent: the three operations on the
\* id "a" with every url, a Link and a lookup for the id "delete", and one
\* request for each of the other answers (a body that does not
\* deserialize, a path outside the API).
Requests ==
    {Request("POST", <<"api", "urls">>, LinkJson("a", u)) : u \in URLS}
    \cup {Request("POST", <<"api", "urls">>, LinkJson("delete", "u"))}
    \cup {Request("POST", <<"api", "urls">>, LinkIdJson("a"))}
    \cup {Request("DELETE", <<"api", "urls", "delete">>, LinkIdJson(i)) : i \in IDS}
    \cup {Request("GET", <<"api", "urls", i>>, NoBody) : i \in IDS}
    \cup {Request("GET", <<"a">>, NoBody)}

----------------------------------------------------------------------------
(* State.                                                                  *)

\* The history of an id: never created, or what the last successful
\* create_link/delete_link for it did.
Never == [kind |-> "never", url |-> ""]
Created(u) == [kind |-> "created", url |-> u]
Deleted == [kind |-> "deleted", url |-> ""]
NoHist == [kind |-> "none", url |-> ""]

\* The end of a request: the request, the service that answered it, the
\* response, the lines printed with eprintln!, the outcome of
\* database_client() and of the storage call ("ok", "err", or "none" when
\* it did not run), and the history of the request's id when a successful
\* storage call ran.
Event(r, h, rsp, lines, conn, op, seen) ==
    [req |-> r, handler |-> h, resp |-> rsp, stderr |-> lines,
     conn |-> conn, op |-> op, seen |-> seen]
NoEvent == Event(NoRequest, "none", NoResponse, <<>>, "none", "none", NoHist)

Init ==
    /\ store = [i \in IDS |-> None]
    /\ hist = [i \in IDS |-> Never]
    /\ pc = [c \in Slots |-> "idle"]
    /\ req = [c \in Slots |-> NoRequest]
    /\ handler = [c \in Slots |-> "none"]
    /\ out = NoEvent

\* The routing check starts from one request received on slot 1.
RouterInit ==
    /\ store = [i \in IDS |-> None]
    /\ hist = [i \in IDS |-> Never]
    /\ pc = [c \in Slots |-> IF c = 1 THEN "received" ELSE "idle"]
    /\ \E r \in AllRequests : req = [c \in Slots |-> IF c = 1 THEN r ELSE NoRequest]
    /\ handler = [c \in Slots |-> "none"]
    /\ out = NoEvent

----------------------------------------------------------------------------
(* Actions.                                                                *)

\* Slot c ends its request: the response is sent and the slot is free.
Finish(c, e) ==
    /\ pc' = [pc EXCEPT ![c] = "idle"]
    /\ req' = [req EXCEPT ![c] = NoRequest]
    /\ handler' = [handler EXCEPT ![c] = "none"]
    /\ out' = e

\* The application serves request r on slot c: the middleware and the
\* router find its service, and the extractor of the handler runs.
Serve(c, r) ==
    LET h == route(r) IN
    /\ UNCHANGED <<store, hist>>
    /\ IF h = "not_found_handler" THEN
            Finish(c, Event(r, h, not_found_handler, <<>>, "none", "none", NoHist))
       ELSE IF h = "resource_default" THEN
            Finish(c, Event(r, h, resource_default, <<>>, "none", "none", NoHist))
       ELSE IF ~Extracts(h, r) THEN
            Finish(c, Event(r, "extractor_error", extractor_error, <<>>,
                            "none", "none", NoHist))
       ELSE
            /\ pc' = [pc EXCEPT ![c] = "acquire"]
            /\ req' = [req EXCEPT ![c] = r]
            /\ handler' = [handler EXCEPT ![c] = h]
            /\ out' = NoEvent

\* A free slot takes a request.
Accept(c) ==
    /\ pc[c] = "idle"
    /\ \E r \in Requests : Serve(c, r)

\* The received request of the routing check is dispatched.
Route(c) ==
    /\ pc[c] = "received"
    /\ Serve(c, req[c])

\* database_client() returned Ok(client): the handler goes on to its
\* storage call.
Connected(c) ==
    /\ pc' = [pc EXCEPT ![c] = "call"]
    /\ out' = NoEvent
    /\ UNCHANGED <<req, handler>>

\* create_url: state.database_client().await
create_url_connect(c) ==
    /\ pc[c] = "acquire" /\ handler[c] = "create_url"
    /\ UNCHANGED <<store, hist>>
    /\ \/ Connected(c)
       \/ Finish(c, Event(req[c], handler[c], create_url_connect_err,
                          create_url_connect_log(PoolError), "err", "none", NoHist))

\* create_url: database::create_link(&client, &body.id, &body.url).await
create_url_call(c) ==
    LET id == IdOf("create_url", req[c])
        url == UrlOf(req[c])
    IN
    /\ pc[c] = "call" /\ handler[c] = "create_url"
    /\ \/ /\ store' = create_link(store, id, url)
          /\ hist' = [hist EXCEPT ![id] = Created(url)]
          /\ Finish(c, Event(req[c], handler[c], create_url_ok(req[c].body),
                             <<>>, "ok", "ok", NoHist))
       \/ /\ UNCHANGED <<store, hist>>
          /\ Finish(c, Event(req[c], handler[c], create_url_err,
                             create_url_err_log(DbError), "ok", "err", NoHist))

\* delete_url: state.database_client().await
delete_url_connect(c) ==
    /\ pc[c] = "acquire" /\ handler[c] = "delete_url"
    /\ UNCHANGED <<store, hist>>
    /\ \/ Connected(c)
       \/ Finish(c, Event(req[c], handler[c], delete_url_connect_err,
                          delete_url_connect_log(PoolError), "err", "none", NoHist))

\* delete_url: database::delete_link(&client, &body.id).await
delete_url_call(c) ==
    LET id == IdOf("delete_url", req[c]) IN
    /\ pc[c] = "call" /\ handler[c] = "delete_url"
    /\ \/ /\ store' = delete_link(store, id)
          /\ hist' = [hist EXCEPT ![id] = Deleted]
          /\ Finish(c, Event(req[c], handler[c], delete_url_ok,
                             <<>>, "ok", "ok", hist[id]))
       \/ /\ UNCHANGED <<store, hist>>
          /\ Finish(c, Event(req[c], handler[c], delete_url_err,
                             delete_url_err_log(DbError), "ok", "err", NoHist))

\* redirect_url: state.database_client().await
redirect_url_connect(c) ==
    /\ pc[c] = "acquire" /\ handler[c] = "redirect_url"
    /\ UNCHANGED <<store, hist>>
    /\ \/ Connected(c)
       \/ Finish(c, Event(req[c], handler[c], redirect_url_connect_err,
                          redirect_url_connect_log(PoolError), "err", "none", NoHist))

\* redirect_url: database::get_link(&client, &id).await
redirect_url_call(c) ==
    LET id == IdOf("redirect_url", req[c]) IN
    /\ pc[c] = "call" /\ handler[c] = "redirect_url"
    /\ UNCHANGED <<store, hist>>
    /\ \/ Finish(c, Event(req[c], handler[c], redirect_url_ok(get_link(store, id)),
                          <<>>, "ok", "ok", hist[id]))
       \/ Finish(c, Event(req[c], handler[c], redirect_url_err,
                          redirect_url_err_log(DbError), "ok", "err", NoHist))

Next ==
    \E c \in Slots :
        \/ Accept(c)
        \/ create_url_connect(c)
        \/ create_url_call(c)
        \/ delete_url_connect(c)
        \/ delete_url_call(c)
        \/ redirect_url_connect(c)
        \/ redirect_url_call(c)

Spec == Init /\ [][Next]_vars

RouterNext == \E c \in Slots : Route(c)

RouterSpec == RouterInit /\ [][RouterNext]_vars

----------------------------------------------------------------------------
(* Properties.  They read out, the end of the request the last step        *)
(* finished, and compare it with the history of the store.                 *)

Redirected == out.handler = "redirect_url" /\ out.conn = "ok" /\ out.op = "ok"
ErrorBody(msg) == {<<"error", msg>>}

\* C1: once Create(id, url) with a non-empty url has succeeded and no later
\* Create or Delete has changed id, a Redirect(id) whose connection and
\* storage call succeed answers 302 with Location exactly that url.
C1_CreateThenRedirect ==
    (Redirected /\ out.seen.kind = "created" /\ ~is_empty(out.seen.url))
        => out.resp = Response(302, NoBody, Some(out.seen.url))

\* A Redirect answered 302 with the url of a Create that replaced an
\* earlier url of the same id.
C1_Witness ==
    /\ Redirected
    /\ out.seen = Created("v")
    /\ out.resp.status = 302
    /\ out.resp.location = Some("v")

\* C2: when no mapping is stored for id (never created, or deleted after
\* its last Create), a Redirect(id) whose connection and storage call
\* succeed answers 200 with an empty body and no Location.
C2_MissingIs200 ==
    (Redirected /\ out.seen.kind \in {"never", "deleted"})
        => out.resp = Response(200, NoBody, None)

\* A Redirect of an id that was created and then deleted.
C2_Witness ==
    /\ Redirected
    /\ out.seen.kind = "deleted"
    /\ out.resp.status = 200

\* C3: a Delete whose connection and storage call succeed answers 200
\* {status: "success", message: "Link deleted"}, whether or not a mapping
\* existed.
C3_DeleteAlways200 ==
    (out.handler = "delete_url" /\ out.conn = "ok" /\ out.op = "ok")
        => out.resp = Response(200, {<<"status", "success">>,
                                     <<"message", "Link deleted">>}, None)

\* A successful Delete of an id that had no mapping.
C3_Witness ==
    /\ out.handler = "delete_url" /\ out.op = "ok"
    /\ out.seen.kind \in {"never", "deleted"}
    /\ out.resp.status = 200

\* C4: a Create whose connection and storage call succeed answers 200 with
\* the id and url of the request body, unmodified; a Create whose storage
\* call failed never answers 200.
C4_CreateEchoes ==
    out.handler = "create_url" =>
        /\ out.op = "ok" =>
              out.resp = Response(200, {<<"id", Field(out.req.body, "id")>>,
                                        <<"url", Field(out.req.body, "url")>>}, None)
        /\ out.op = "err" => out.resp.status # 200

\* A successful Create of a Link with a non-empty url.
C4_Witness ==
    /\ out.handler = "create_url" /\ out.op = "ok"
    /\ out.req.body = LinkJson("a", "v")
    /\ out.resp.status = 200

\* The three (method, path) pairs the API documents, on the normalized
\* path.
IsApiPath(p) ==
    \/ p = <<"api", "urls">>
    \/ Len(p) = 3 /\ p[1] = "api" /\ p[2] = "urls"
IsApiOperation(m, p) ==
    \/ m = "POST" /\ p = <<"api", "urls">>
    \/ m = "DELETE" /\ p = <<"api", "urls", "delete">>
    \/ m = "GET" /\ Len(p) = 3 /\ p[1] = "api" /\ p[2] = "urls"

\* C5 as stated: every request whose (method, path) is not one of the three
\* operations is answered 404 {error: "Not found"}, a registered path with
\* another method included.
C5_OtherIs404 ==
    (out # NoEvent /\ ~IsApiOperation(out.req.method, NormalizePath(out.req.path)))
        => out.resp = Response(404, ErrorBody("Not found"), None)

\* C5 amended: a request whose path is none of /api/urls, /api/urls/delete,
\* /api/urls/{id} is answered 404 {error: "Not found"}; a request to one of
\* these paths with a method that is not its operation is answered 405
\* with an empty body.
C5_UnknownPath404_WrongMethod405 ==
    LET p == NormalizePath(out.req.path) IN
    out # NoEvent =>
        /\ ~IsApiPath(p) => out.resp = Response(404, ErrorBody("Not found"), None)
        /\ (IsApiPath(p) /\ ~IsApiOperation(out.req.method, p))
              => out.resp = Response(405, NoBody, None)

\* POST /api/urls/delete is answered 405.
C5_Witness ==
    /\ out.req.method = "POST"
    /\ out.req.path = <<"api", "urls", "delete">>
    /\ out.resp.status = 405

\* C6: a failure to acquire a connection, or of the storage call, ends that
\* request with 500 and a JSON {error} body after a single attempt; the
\* slot is free again; and the store holds exactly what the successful
\* Creates and Deletes left, so that no other request's answer depends on
\* the failed one.
C6_FailureIsolated ==
    /\ (out.conn = "err" \/ out.op = "err") =>
          /\ out.resp.status = 500
          /\ \E m \in {"Error connecting to database", "Error shortening URL",
                       "Error deleting Link", "Error redirecting to full URL"} :
                out.resp.body = ErrorBody(m)
          /\ out.conn = "err" => out.op = "none"
          /\ \E c \in Slots : pc[c] = "idle"
    /\ \A i \in IDS :
          store[i] = IF hist[i].kind = "created" THEN Some(hist[i].url) ELSE None

\* A storage call of a Delete failed while a Link is stored, and another
\* request is being processed.
C6_Witness ==
    /\ out.handler = "delete_url" /\ out.op = "err"
    /\ out.req.body = LinkIdJson("a")
    /\ store["a"] = Some("u")
    /\ \E c \in Slots : pc[c] = "call"

\* The response each handler gives when its storage call fails.
StorageFailureResponse(h) ==
    CASE h = "create_url"   -> create_url_err
      [] h = "delete_url"   -> delete_url_err
      [] h = "redirect_url" -> redirect_url_err

\* C7 as stated: a handler answers a connection failure and a storage
\* failure with the same response.
C7_SameResponse ==
    (out.conn = "err" \/ out.op = "err")
        => out.resp = StorageFailureResponse(out.handler)

\* C7 amended: both failures are answered 500 with a JSON {error: message}
\* body whose message is a fixed text without the underlying error; the
\* message is "Error connecting to database" for a connection failure and
\* the handler's own message for a storage failure, so the body tells the
\* two apart.
C7_GenericButDistinct ==
    /\ out.conn = "err" =>
          out.resp = Response(500, ErrorBody("Error connecting to database"), None)
    /\ out.op = "err" =>
          out.resp = Response(500,
                ErrorBody(CASE out.handler = "create_url" -> "Error shortening URL"
                            [] out.handler = "delete_url" -> "Error deleting Link"
                            [] out.handler = "redirect_url" ->
                                    "Error redirecting to full URL"),
                None)

\* A Redirect whose storage call failed.
C7_Witness ==
    /\ out.handler = "redirect_url" /\ out.op = "err"
    /\ out.resp.status = 500

\* C8 as stated: every request that ends in a 500 has written a log line
\* carrying the underlying error.
C8_EveryFailureLogged ==
    out.resp.status = 500 =>
        /\ Len(out.stderr) = 1
        /\ out.stderr[1].detail = (IF out.conn = "err" THEN PoolError ELSE DbError)

\* C9 as stated: every GET /api/urls/{id}, for an id a Link has been
\* created with, is served by redirect_url, so that the Link can be
\* resolved; the id "delete" included.
C9_GetReachesRedirect ==
    \A i \in IDS :
        (/\ out.req.method = "GET"
         /\ out.req.path = <<"api", "urls", i>>
         /\ hist[i].kind = "created")
            => out.handler = "redirect_url"

\* C10 as stated: a Redirect whose storage call succeeds answers 200 with
\* an empty body only when no mapping is stored; for a stored mapping,
\* whatever its url, it answers 302.
C10_200OnlyWhenMissing ==
    Redirected =>
        /\ out.resp.status = 200 => out.seen.kind \in {"never", "deleted"}
        /\ out.seen.kind = "created" => out.resp.status = 302

\* C10 amended: a Redirect whose storage call succeeds answers 200 with an
\* empty body exactly when no mapping is stored or the stored url is the
\* empty string, and 302 exactly when a non-empty url is stored.
C10_200WhenMissingOrEmpty ==
    Redirected =>
        /\ out.resp.status \in {200, 302}
        /\ out.resp.status = 200 <=>
              \/ out.seen.kind \in {"never", "deleted"}
              \/ out.seen = Created("")
        /\ out.resp.status = 200 => out.resp.body = NoBody /\ out.resp.location = None

\* A Redirect of an id whose stored url is the empty string.
C10_Witness ==
    /\ Redirected
    /\ out.seen = Created("")
    /\ out.resp.status = 200

====
